---------------------------- MODULE Spec2Model ----------------------------
(***************************************************************************)
(* Banco de Chile statement extractor (beancount_chile).                   *)
(*                                                                         *)
(* A cell text is a sequence of characters; a label word ("Fecha",         *)
(* "Movimientos", ...) is kept as one element of the sequence, digits,     *)
(* separators and blanks are single characters.  A numeric cell carries    *)
(* the text Python's str() prints for it.  A Decimal is a coefficient and  *)
(* an exponent, as in Python's decimal module.                             *)
(***************************************************************************)
EXTENDS Integers, Sequences, FiniteSets, TLC

VARIABLES
    cell,           \* _parse_amount: the argument
    amount,         \* _parse_amount: the returned Decimal (or NoAmount before the call)
    apc,            \* _parse_amount: "idle" | "call" | "returned" | "raised"
    file,           \* the statement file extract is called on
    now,            \* the clock datetime.now() reads
    pc,             \* BancoChileXLSExtractor.extract: where the call is
    engine,         \* extract: the engine _detect_excel_engine chose
    metadata,       \* extract: the local metadata
    cols,           \* _extract_transactions: the column map
    idx,            \* _extract_transactions: the loop index
    transactions,   \* _extract_transactions: the list being built
    error,          \* the exception the call ended with ("none": none)
    result,         \* what the caller of extract received (NoResult: nothing)
    calls,          \* the outcomes of the earlier calls of extract on the file
    op,             \* the BancoChileImporter method running ("extract": none)
    account_number, \* BancoChileImporter.account_number
    answer,         \* what identify, date or filename returned
    entries,        \* what BancoChileImporter.extract returned
    receipt,        \* generate_receipt_link: the arguments date, payee, receipt_paths
    links,          \* generate_receipt_link: the returned frozenset
    lpc             \* generate_receipt_link: "idle" | "call" | "returned"

amountVars == <<cell, amount, apc>>

callVars == <<pc, engine, metadata, cols, idx, transactions, error, result>>

importerVars == <<op, account_number, answer, entries>>

linkVars == <<receipt, links, lpc>>

vars == <<cell, amount, apc, file, now, pc, engine, metadata, cols, idx, transactions,
          error, result, calls, op, account_number, answer, entries, receipt, links, lpc>>

-----------------------------------------------------------------------------
(* Characters and text *)

DigitChars == {"0", "1", "2", "3", "4", "5", "6", "7", "8", "9"}

IsDigit(c) == c \in DigitChars

DigitVal(c) ==
    CASE c = "0" -> 0 [] c = "1" -> 1 [] c = "2" -> 2 [] c = "3" -> 3
      [] c = "4" -> 4 [] c = "5" -> 5 [] c = "6" -> 6 [] c = "7" -> 7
      [] c = "8" -> 8 [] c = "9" -> 9

AllDigits(s) == \A i \in 1..Len(s) : IsDigit(s[i])

RECURSIVE DigitsVal(_)
\* int() of a digit string; the empty string counts 0
DigitsVal(s) ==
    IF Len(s) = 0 THEN 0
    ELSE 10 * DigitsVal(SubSeq(s, 1, Len(s) - 1)) + DigitVal(s[Len(s)])

RECURSIVE Pow10(_)
Pow10(n) == IF n <= 0 THEN 1 ELSE 10 * Pow10(n - 1)

IsSpace(c) == c = " "

RECURSIVE LStrip(_)
LStrip(s) == IF Len(s) > 0 /\ IsSpace(s[1]) THEN LStrip(Tail(s)) ELSE s

RECURSIVE RStrip(_)
RStrip(s) ==
    IF Len(s) > 0 /\ IsSpace(s[Len(s)]) THEN RStrip(SubSeq(s, 1, Len(s) - 1)) ELSE s

\* str.strip()
Strip(s) == RStrip(LStrip(s))

\* str.startswith(p)
StartsWith(s, p) == Len(s) >= Len(p) /\ SubSeq(s, 1, Len(p)) = p

NotComma(c) == c # ","

NotPeriod(c) == c # "."

\* str.replace(",", "").replace(".", "")
RemoveSeparators(s) == SelectSeq(SelectSeq(s, NotComma), NotPeriod)

\* index of the first element of s in set cs, 0 when there is none
FirstIndexIn(s, cs) ==
    IF \E i \in 1..Len(s) : s[i] \in cs
    THEN CHOOSE i \in 1..Len(s) : s[i] \in cs /\ \A j \in 1..(i - 1) : s[j] \notin cs
    ELSE 0

-----------------------------------------------------------------------------
(* Cells *)

Absent == [t |-> "absent", s |-> <<>>]

TextCell(s) == [t |-> "text", s |-> s]

\* a numeric cell, s is what str() prints for the number
NumCell(s) == [t |-> "num", s |-> s]

\* pd.isna(value)
IsNa(c) == c.t = "absent"

\* str(value): "nan" for an absent cell
Str(c) == IF c.t = "absent" THEN <<"nan">> ELSE c.s

\* cell texts used below
T1234567 == <<"1", ".", "2", "3", "4", ".", "5", "6", "7">>

T12500 == <<"1", "2", ",", "5", "0", "0">>

N1500 == <<"1", "5", "0", "0", ".", "0">>

N15000 == <<"1", "5", "0", "0", "0">>

N05 == <<"0", ".", "5">>

-----------------------------------------------------------------------------
(* decimal.Decimal(str) *)

Invalid == [kind |-> "invalid", c |-> 0, e |-> 0]

Dec(c, e) == [kind |-> "num", c |-> c, e |-> e]

DecZero == Dec(0, 0)

\* no Decimal: Python's None
NoAmount == [kind |-> "none", c |-> 0, e |-> 0]

\* [-+]? prefix
SignOf(s) == IF Len(s) > 0 /\ s[1] = "-" THEN -1 ELSE 1

Unsigned(s) == IF Len(s) > 0 /\ s[1] \in {"+", "-"} THEN Tail(s) ELSE s

\* E[-+]?\d+ without the E: the exponent, or "bad"
ExpOk(x) == Len(Unsigned(x)) > 0 /\ AllDigits(Unsigned(x))

ExpVal(x) == SignOf(x) * DigitsVal(Unsigned(x))

\* (?=\d|\.\d)\d*(\.\d*)? : int and frac digits
MantissaParts(m) ==
    LET p == FirstIndexIn(m, {"."})
    IN  IF p = 0 THEN [int |-> m, frac |-> <<>>]
        ELSE [int |-> SubSeq(m, 1, p - 1), frac |-> SubSeq(m, p + 1, Len(m))]

MantissaOk(m) ==
    LET parts == MantissaParts(m)
    IN  /\ AllDigits(parts.int)
        /\ AllDigits(parts.frac)
        /\ Len(parts.int) + Len(parts.frac) > 0

\* Decimal(s) for a string s already stripped; Invalid stands for the
\* decimal.InvalidOperation the constructor raises
DecimalOf(s) ==
    LET sign == SignOf(s)
        u == Unsigned(s)
        ePos == FirstIndexIn(u, {"e", "E"})
        m == IF ePos = 0 THEN u ELSE SubSeq(u, 1, ePos - 1)
        x == IF ePos = 0 THEN <<>> ELSE SubSeq(u, ePos + 1, Len(u))
        parts == MantissaParts(m)
    IN  IF u \in {<<"inf">>, <<"Infinity">>} THEN [kind |-> "inf", c |-> sign, e |-> 0]
        ELSE IF Len(u) > 0 /\ u[1] \in {"nan", "NaN"} /\ AllDigits(Tail(u))
             THEN [kind |-> "nan", c |-> 0, e |-> 0]
        ELSE IF MantissaOk(m) /\ (ePos = 0 \/ ExpOk(x))
             THEN Dec(sign * DigitsVal(parts.int \o parts.frac),
                      (IF ePos = 0 THEN 0 ELSE ExpVal(x)) - Len(parts.frac))
        ELSE Invalid

\* numeric equality of two Decimals
DecEq(a, b) ==
    /\ a.kind = b.kind
    /\ a.kind = "num" =>
         LET lo == IF a.e < b.e THEN a.e ELSE b.e
         IN  a.c * Pow10(a.e - lo) = b.c * Pow10(b.e - lo)
    /\ a.kind = "inf" => a.c = b.c

\* the Decimal is a finite number with no fractional part
IsIntegral(a) == a.kind = "num" /\ (a.e >= 0 \/ a.c % Pow10(-a.e) = 0)

-----------------------------------------------------------------------------
(* BancoChileXLSExtractor._parse_amount *)

ParseAmountNumeric(value) == DecimalOf(value.s)

ParseAmountText(value) ==
    LET value_str == Strip(RemoveSeparators(Str(value)))
        parsed == DecimalOf(value_str)
    IN  IF Len(value_str) = 0 THEN DecZero
        ELSE IF parsed = Invalid THEN DecZero
        ELSE parsed

\* the returned Decimal; Invalid when the call raises
ParseAmount(value) ==
    IF IsNa(value) THEN DecZero
    ELSE IF value.t = "num" THEN ParseAmountNumeric(value)
    ELSE ParseAmountText(value)

-----------------------------------------------------------------------------
(* The DataFrame pd.read_excel(header=None) returns: rows of cells, rows and  *)
(* columns counted from 0                                                     *)

NRows(df) == Len(df)

\* df.shape[1]
NCols(df) == IF Len(df) = 0 THEN 0 ELSE Len(df[1])

\* df.iloc[r, c], for r and c inside the frame
ILoc(df, r, c) == df[r + 1][c + 1]

InFrame(df, r, c) == r \in 0..(NRows(df) - 1) /\ c \in 0..(NCols(df) - 1)

\* df[df[1].astype(str).str.strip().str.startswith(label)].index, as a set
RowsStarting(df, label) ==
    {r \in 0..(NRows(df) - 1) : StartsWith(Strip(Str(ILoc(df, r, 1))), label)}

SetMin(S) == CHOOSE x \in S : \A y \in S : x <= y

SetMax(S) == CHOOSE x \in S : \A y \in S : x >= y

\* BancoChileXLSExtractor._find_value_column
FindValueColumn(df, row_idx, label_col) ==
    LET found == {c \in (label_col + 1)..(NCols(df) - 1) : ~IsNa(ILoc(df, row_idx, c))}
    IN  IF found = {} THEN label_col + 1 ELSE SetMin(found)

\* BancoChileXLSExtractor._find_header_column
FindHeaderColumn(df, row_idx, header) ==
    LET found == {c \in 0..(NCols(df) - 1) :
                    /\ ~IsNa(ILoc(df, row_idx, c))
                    /\ StartsWith(Strip(Str(ILoc(df, row_idx, c))), header)}
    IN  IF found = {} THEN -1 ELSE SetMin(found)

-----------------------------------------------------------------------------
(* Dates: re \d{2}/\d{2}/\d{4} and datetime.strptime(s, "%d/%m/%Y") *)

\* the pattern matches s at position i (from 1)
DatePatternAt(s, i) ==
    /\ i >= 1
    /\ i + 9 <= Len(s)
    /\ IsDigit(s[i]) /\ IsDigit(s[i + 1]) /\ s[i + 2] = "/"
    /\ IsDigit(s[i + 3]) /\ IsDigit(s[i + 4]) /\ s[i + 5] = "/"
    /\ IsDigit(s[i + 6]) /\ IsDigit(s[i + 7]) /\ IsDigit(s[i + 8]) /\ IsDigit(s[i + 9])

\* re.match(pattern, s)
DateMatch(s) == DatePatternAt(s, 1)

\* re.search(pattern, s): the position of the leftmost match, 0 for no match
DateSearch(s) ==
    LET at == {i \in 1..Len(s) : DatePatternAt(s, i)}
    IN  IF at = {} THEN 0 ELSE SetMin(at)

IsLeap(y) == (y % 4 = 0 /\ y % 100 # 0) \/ y % 400 = 0

DaysIn(m, y) ==
    IF m = 2 THEN (IF IsLeap(y) THEN 29 ELSE 28)
    ELSE IF m \in {4, 6, 9, 11} THEN 30
    ELSE 31

\* the day, month and year fields of a string the pattern matches entirely
DateFields(s) ==
    [d |-> DigitsVal(SubSeq(s, 1, 2)),
     m |-> DigitsVal(SubSeq(s, 4, 5)),
     y |-> DigitsVal(SubSeq(s, 7, 10))]

\* strptime accepts s: nothing but DD/MM/YYYY, and a real calendar date
StrpOk(s) ==
    /\ Len(s) = 10
    /\ DateMatch(s)
    /\ LET f == DateFields(s)
       IN  f.y >= 1 /\ f.m \in 1..12 /\ f.d >= 1 /\ f.d <= DaysIn(f.m, f.y)

\* the datetime strptime returns (midnight)
Strp(s) == [y |-> DateFields(s).y, m |-> DateFields(s).m, d |-> DateFields(s).d, t |-> 0]

\* datetime.now() when the clock shows tick n of the day the model runs in
ClockDatetime(n) == [y |-> 2026, m |-> 11, d |-> 5, t |-> n]

NoDate == [y |-> 0, m |-> 0, d |-> 0, t |-> 0]

-----------------------------------------------------------------------------
(* BancoChileXLSExtractor._extract_metadata *)

LabelHolder == <<"Sr(a)">>

LabelRut == <<"Rut:">>

LabelAccount == <<"Cuenta">>

LabelCurrency == <<"Moneda:">>

LabelBalance == <<"Saldo", " ", "Disponible">>

LabelContable == <<"Saldo", " ", "Contable">>

LabelTotals == <<"Total", " ", "Cargos">>

LabelAbonos == <<"Total", " ", "Abonos">>

LabelMovements == <<"Movimientos">>

LabelHeader == <<"Fecha">>

NoMeta ==
    [account_holder |-> <<>>, rut |-> <<>>, account_number |-> <<>>, currency |-> <<>>,
     available_balance |-> NoAmount, accounting_balance |-> NoAmount,
     total_debits |-> NoAmount, total_credits |-> NoAmount, statement_date |-> NoDate]

Raise(kind, msg) == [err |-> kind, msg |-> msg, meta |-> NoMeta]

\* row.index[0] of the rows starting with a label, -1 when row.empty
FirstRow(df, label) ==
    LET rows == RowsStarting(df, label)
    IN  IF rows = {} THEN -1 ELSE SetMin(rows)

\* the value right of a label: str(df.iloc[row_idx, value_col])
LabelValue(df, row_idx) == Str(ILoc(df, row_idx, FindValueColumn(df, row_idx, 1)))

LabelValueInFrame(df, row_idx) == InFrame(df, row_idx, FindValueColumn(df, row_idx, 1))

\* the column of the second value of a block: under the second label, or 2
SecondColumn(df, header_idx, second) ==
    LET col == FindHeaderColumn(df, header_idx, second)
    IN  IF col = -1 THEN 2 ELSE col

BlockInFrame(df, header_idx, second) ==
    /\ InFrame(df, header_idx + 1, 1)
    /\ InFrame(df, header_idx + 1, SecondColumn(df, header_idx, second))

BlockFirst(df, header_idx) == ParseAmount(ILoc(df, header_idx + 1, 1))

BlockSecond(df, header_idx, second) ==
    ParseAmount(ILoc(df, header_idx + 1, SecondColumn(df, header_idx, second)))

\* faulty variant: the scan of the row starts at the label column
DateColumnsFromLabel(df, row_idx) ==
    {c \in 1..(NCols(df) - 1) :
        ~IsNa(ILoc(df, row_idx, c)) /\ DateSearch(Str(ILoc(df, row_idx, c))) # 0}

\* the columns of the row whose cell holds the date pattern
DateColumns(df, row_idx) ==
    {c \in 0..(NCols(df) - 1) :
        ~IsNa(ILoc(df, row_idx, c)) /\ DateSearch(Str(ILoc(df, row_idx, c))) # 0}

\* date_match.group(1) of the first cell, left to right, the pattern is found in
MatchedDate(df, row_idx) ==
    LET s == Str(ILoc(df, row_idx, SetMin(DateColumns(df, row_idx))))
    IN  SubSeq(s, DateSearch(s), DateSearch(s) + 9)

\* faulty variant: the statement date is always the clock's datetime
StatementDateFromClock(df, movements_idx, clock) == ClockDatetime(clock)

\* lines 203-216: the statement date of the "Movimientos" row, the clock's
\* datetime when no cell of the row holds the pattern
StatementDate(df, movements_idx, clock) ==
    IF DateColumns(df, movements_idx) = {} THEN ClockDatetime(clock)
    ELSE Strp(MatchedDate(df, movements_idx))

StatementDateRaises(df, movements_idx) ==
    /\ DateColumns(df, movements_idx) # {}
    /\ ~StrpOk(MatchedDate(df, movements_idx))

\* faulty variant: the currency row is not required
CurrencyNeverMissing(df) == FALSE

\* currency_row.empty
CurrencyMissing(df) == FirstRow(df, LabelCurrency) = -1

\* the outcome of _extract_metadata(df) at clock tick clock: the metadata, or the
\* first exception the statements raise, in their order
ExtractMetadata(df, clock) ==
    LET holder_idx == FirstRow(df, LabelHolder)
        rut_idx == FirstRow(df, LabelRut)
        account_idx == FirstRow(df, LabelAccount)
        balance_header_idx == FirstRow(df, LabelBalance)
        totals_header_idx == FirstRow(df, LabelTotals)
        movements_idx == FirstRow(df, LabelMovements)
    IN  IF NCols(df) < 2 THEN Raise("KeyError", "1")
        ELSE IF holder_idx = -1
        THEN Raise("ValueError", "Could not find account holder information")
        ELSE IF ~LabelValueInFrame(df, holder_idx) THEN Raise("IndexError", "holder")
        ELSE IF rut_idx = -1 THEN Raise("ValueError", "Could not find RUT information")
        ELSE IF ~LabelValueInFrame(df, rut_idx) THEN Raise("IndexError", "rut")
        ELSE IF account_idx = -1
        THEN Raise("ValueError", "Could not find account information")
        ELSE IF ~LabelValueInFrame(df, account_idx) THEN Raise("IndexError", "account")
        ELSE IF CurrencyMissing(df)
        THEN Raise("ValueError", "Could not find currency information")
        ELSE IF balance_header_idx = -1
        THEN Raise("ValueError", "Could not find balance information")
        ELSE IF ~BlockInFrame(df, balance_header_idx, LabelContable)
        THEN Raise("IndexError", "balance")
        ELSE IF Invalid \in {BlockFirst(df, balance_header_idx),
                             BlockSecond(df, balance_header_idx, LabelContable)}
        THEN Raise("InvalidOperation", "balance")
        ELSE IF totals_header_idx = -1
        THEN Raise("ValueError", "Could not find totals information")
        ELSE IF ~BlockInFrame(df, totals_header_idx, LabelAbonos)
        THEN Raise("IndexError", "totals")
        ELSE IF Invalid \in {BlockFirst(df, totals_header_idx),
                             BlockSecond(df, totals_header_idx, LabelAbonos)}
        THEN Raise("InvalidOperation", "totals")
        ELSE IF movements_idx = -1 THEN Raise("ValueError", "Could not find statement date")
        ELSE IF StatementDateRaises(df, movements_idx) THEN Raise("ValueError", "strptime")
        ELSE [err |-> "none", msg |-> "",
              meta |-> [account_holder |-> LabelValue(df, holder_idx),
                        rut |-> LabelValue(df, rut_idx),
                        account_number |-> LabelValue(df, account_idx),
                        currency |-> <<"CLP">>,
                        available_balance |-> BlockFirst(df, balance_header_idx),
                        accounting_balance |->
                            BlockSecond(df, balance_header_idx, LabelContable),
                        total_debits |-> BlockFirst(df, totals_header_idx),
                        total_credits |-> BlockSecond(df, totals_header_idx, LabelAbonos),
                        statement_date |-> StatementDate(df, movements_idx, clock)]]

-----------------------------------------------------------------------------
(* BancoChileXLSExtractor._detect_transaction_columns *)

LegacyDate == 1

LegacyDescription == 2

LegacyChannel == 3

LegacyDebit == 4

LegacyCredit == 5

LegacyBalance == 6

Roles == {"date", "description", "channel", "debit", "credit", "balance"}

\* the key a stripped header text sets in col_map ("none": no branch taken)
HeaderKey(val_str) ==
    IF val_str = <<"Fecha">> THEN "date"
    ELSE IF val_str = <<"Descripción">> THEN "description"
    ELSE IF StartsWith(val_str, <<"Canal">>) THEN "channel"
    ELSE IF StartsWith(val_str, <<"Cargos">>) THEN "debit"
    ELSE IF StartsWith(val_str, <<"Abonos">>) THEN "credit"
    ELSE IF StartsWith(val_str, <<"Saldo">>) THEN "balance"
    ELSE "none"

\* the columns of the header row whose cell sets the key
KeyColumns(df, header_idx, key) ==
    {c \in 0..(NCols(df) - 1) :
        /\ ~IsNa(ILoc(df, header_idx, c))
        /\ HeaderKey(Strip(Str(ILoc(df, header_idx, c)))) = key}

\* col_map.setdefault(key, ...)
LegacyColumn(key) ==
    CASE key = "date" -> LegacyDate
      [] key = "description" -> LegacyDescription
      [] key = "channel" -> LegacyChannel
      [] key = "debit" -> LegacyDebit
      [] key = "credit" -> LegacyCredit
      [] key = "balance" -> LegacyBalance

\* col_map[key]: the loop runs left to right, so the last matching cell stays
ColumnOf(df, header_idx, key) ==
    LET found == KeyColumns(df, header_idx, key)
    IN  IF found = {} THEN LegacyColumn(key) ELSE SetMax(found)

DetectTransactionColumns(df, header_idx) ==
    [key \in Roles |-> ColumnOf(df, header_idx, key)]

-----------------------------------------------------------------------------
(* BancoChileXLSExtractor._extract_transactions: one pass of the loop body *)

\* row[col] on the Series of a row: a KeyError for a column the frame lacks
HasColumn(df, col) == col \in 0..(NCols(df) - 1)

\* "x if not pd.isna(row[col]) else None" for debit and credit
OptionalAmount(value) == IF IsNa(value) THEN NoAmount ELSE ParseAmount(value)

\* str(row[col]) if not pd.isna(row[col]) else ""
OptionalText(value) == IF IsNa(value) THEN <<>> ELSE Str(value)

RowTransaction(df, col_map, row_idx) ==
    [date |-> Strp(Str(ILoc(df, row_idx, col_map["date"]))),
     description |-> OptionalText(ILoc(df, row_idx, col_map["description"])),
     channel |-> OptionalText(ILoc(df, row_idx, col_map["channel"])),
     debit |-> OptionalAmount(ILoc(df, row_idx, col_map["debit"])),
     credit |-> OptionalAmount(ILoc(df, row_idx, col_map["credit"])),
     balance |-> ParseAmount(ILoc(df, row_idx, col_map["balance"]))]

\* faulty variant: a row whose date text does not match is skipped, not the end
RowStepSkipsFooter(df, col_map, row_idx) ==
    IF IsNa(ILoc(df, row_idx, col_map["date"])) THEN "continue"
    ELSE IF ~DateMatch(Str(ILoc(df, row_idx, col_map["date"]))) THEN "continue"
    ELSE IF ~StrpOk(Str(ILoc(df, row_idx, col_map["date"]))) THEN "break"
    ELSE IF \E key \in {"description", "channel", "debit", "credit", "balance"} :
                ~(col_map[key] \in 0..(NCols(df) - 1))
    THEN "KeyError"
    ELSE "append"

\* faulty variant: a row with an empty date cell ends the scan
RowStepStopsAtSpacer(df, col_map, row_idx) ==
    IF IsNa(ILoc(df, row_idx, col_map["date"])) THEN "break"
    ELSE IF ~DateMatch(Str(ILoc(df, row_idx, col_map["date"]))) THEN "break"
    ELSE IF ~StrpOk(Str(ILoc(df, row_idx, col_map["date"]))) THEN "break"
    ELSE IF \E key \in {"description", "channel", "debit", "credit", "balance"} :
                ~(col_map[key] \in 0..(NCols(df) - 1))
    THEN "KeyError"
    ELSE "append"

\* what the loop body does with row row_idx:
\*   "continue"  the date cell is empty (line 291)
\*   "break"     the date text does not match, or a ValueError was caught
\*   "KeyError", "InvalidOperation"   an exception the except clause lets through
\*   "append"    a transaction is appended
RowStep(df, col_map, row_idx) ==
    IF IsNa(ILoc(df, row_idx, col_map["date"])) THEN "continue"
    ELSE IF ~DateMatch(Str(ILoc(df, row_idx, col_map["date"]))) THEN "break"
    ELSE IF ~StrpOk(Str(ILoc(df, row_idx, col_map["date"]))) THEN "break"
    ELSE IF \E key \in {"description", "channel", "debit", "credit", "balance"} :
                ~HasColumn(df, col_map[key])
    THEN "KeyError"
    ELSE IF Invalid \in {OptionalAmount(ILoc(df, row_idx, col_map["debit"])),
                         OptionalAmount(ILoc(df, row_idx, col_map["credit"])),
                         ParseAmount(ILoc(df, row_idx, col_map["balance"]))}
    THEN "InvalidOperation"
    ELSE "append"

-----------------------------------------------------------------------------
(* Statement files.  A file is its leading bytes, its extension, the container *)
(* format its content really has, and the frame a matching reader makes of it  *)

ZipMagic == <<"P", "K", "03", "04">>

Ole2Magic == <<"D0", "CF", "11", "E0">>

\* rows of n cells from a set of <<column, cell>> pairs; a pair whose column
\* is outside 0..n-1 has no cell
MkRow(n, pairs) ==
    [i \in 1..n |->
        IF \E q \in pairs : q[1] = i - 1
        THEN (CHOOSE q \in pairs : q[1] = i - 1)[2]
        ELSE Absent]

D15032024 == <<"1", "5", "/", "0", "3", "/", "2", "0", "2", "4">>

D05012024 == <<"0", "5", "/", "0", "1", "/", "2", "0", "2", "4">>

D06012024 == <<"0", "6", "/", "0", "1", "/", "2", "0", "2", "4">>

D31022024 == <<"3", "1", "/", "0", "2", "/", "2", "0", "2", "4">>

T500000 == <<"5", "0", "0", ".", "0", "0", "0">>

T485000 == <<"4", "8", "5", "0", "0", "0">>

AccountA == <<"0", "0", "-", "1", "2", "3", "-", "9", "0">>

AccountB == <<"0", "0", "-", "9", "9", "9", "-", "0", "0">>

\* the statement head; style "xlsx" keeps each value beside its label, style
\* "xls" one merged column further right.  Each entry names the label its row
\* belongs to, so that a statement lacking a label lacks these rows
HeadRows(n, style, account) ==
    LET v == IF style = "xlsx" THEN 2 ELSE 3
    IN  << [label |-> "none", row |-> MkRow(n, {})],
           [label |-> "holder",
            row |-> MkRow(n, {<<1, TextCell(<<"Sr(a)", ":">>)>>,
                              <<v, TextCell(<<"Test", " ", "Holder">>)>>})],
           [label |-> "rut",
            row |-> MkRow(n, {<<1, TextCell(<<"Rut:">>)>>,
                              <<v, TextCell(<<"11.111.111-1">>)>>})],
           [label |-> "account",
            row |-> MkRow(n, {<<1, TextCell(<<"Cuenta", ":">>)>>,
                              <<v, TextCell(account)>>})],
           [label |-> "currency",
            row |-> MkRow(n, {<<1, TextCell(<<"Moneda:">>)>>,
                              <<v, TextCell(<<"CLP">>)>>})],
           [label |-> "balance",
            row |-> MkRow(n, {<<1, TextCell(LabelBalance)>>, <<v, TextCell(LabelContable)>>})],
           [label |-> "balance",
            row |-> MkRow(n, {<<1, TextCell(T500000)>>, <<v, TextCell(T485000)>>})],
           [label |-> "totals",
            row |-> MkRow(n, {<<1, TextCell(LabelTotals)>>, <<v, TextCell(LabelAbonos)>>})],
           [label |-> "totals",
            row |-> MkRow(n, {<<1, NumCell(N15000)>>, <<v, TextCell(T12500)>>})] >>

MovementsKinds == {"single", "split", "nodate", "invalid", "two", "before"}

\* the "Movimientos al DD/MM/YYYY" row in the layouts seen and some damaged ones
MovementsRow(n, kind) ==
    LET al == <<"Movimientos", " ", "al", " ">>
    IN  CASE kind = "single" -> MkRow(n, {<<1, TextCell(al \o D15032024)>>})
          [] kind = "split" ->
                MkRow(n, {<<1, TextCell(<<"Movimientos">>)>>,
                          <<3, TextCell(<<"al", " ">> \o D15032024)>>})
          [] kind = "nodate" -> MkRow(n, {<<1, TextCell(<<"Movimientos">>)>>})
          [] kind = "invalid" -> MkRow(n, {<<1, TextCell(al \o D31022024)>>})
          [] kind = "two" ->
                MkRow(n, {<<1, TextCell(al \o D15032024 \o <<" ">> \o D06012024)>>,
                          <<3, TextCell(D05012024)>>})
          [] kind = "before" ->
                MkRow(n, {<<0, TextCell(D05012024)>>, <<1, TextCell(al \o D15032024)>>})

\* where a statement layout keeps each transaction column (-1: it has none)
LayoutXlsx ==
    [n |-> 7, date |-> 1, description |-> 2, channel |-> 3, debit |-> 4, credit |-> 5,
     balance |-> 6]

LayoutXls ==
    [n |-> 8, date |-> 1, description |-> 2, channel |-> 4, debit |-> 5, credit |-> 6,
     balance |-> 7]

LayoutNoBalance ==
    [n |-> 6, date |-> 1, description |-> 2, channel |-> 3, debit |-> 4, credit |-> 5,
     balance |-> -1]

LayoutNarrow ==
    [n |-> 5, date |-> 1, description |-> 2, channel |-> -1, debit |-> 3, credit |-> -1,
     balance |-> 4]

LayoutFive ==
    [n |-> 5, date |-> 1, description |-> 0, channel |-> 2, debit |-> 3, credit |-> -1,
     balance |-> 4]

Layouts == {LayoutXlsx, LayoutXls, LayoutNoBalance, LayoutNarrow, LayoutFive}

HeaderStyles == {"full", "nocredit", "fechaop"}

\* the header row of the transaction table: EXPECTED_COLUMNS at the layout's
\* columns; "nocredit" leaves the credit header blank, "fechaop" titles the
\* date column "Fecha Operación"
HeaderRow(layout, style) ==
    MkRow(layout.n,
          {<<layout.date,
             TextCell(IF style = "fechaop" THEN <<"Fecha", " ", "Operación">>
                      ELSE <<"Fecha">>)>>,
           <<layout.description, TextCell(<<"Descripción">>)>>,
           <<layout.channel, TextCell(<<"Canal", " ", "o", " ", "Sucursal">>)>>,
           <<layout.debit, TextCell(<<"Cargos", " ", "(CLP)">>)>>,
           <<layout.credit,
             IF style = "nocredit" THEN Absent ELSE TextCell(<<"Abonos", " ", "(CLP)">>)>>,
           <<layout.balance, TextCell(<<"Saldo", " ", "(CLP)">>)>>})

RowKinds == {"debit", "credit", "both", "blank", "spacer", "footer", "baddate"}

\* a row below the header
DataRow(layout, kind) ==
    LET row(date, description, channel, debit, credit, balance) ==
            MkRow(layout.n,
                  {<<layout.date, date>>, <<layout.description, description>>,
                   <<layout.channel, channel>>, <<layout.debit, debit>>,
                   <<layout.credit, credit>>, <<layout.balance, balance>>})
    IN  CASE kind = "debit" ->
                row(TextCell(D05012024), TextCell(<<"Compra", " ", "Tienda">>),
                    TextCell(<<"App">>), NumCell(N15000), Absent, TextCell(T485000))
          [] kind = "credit" ->
                row(TextCell(D06012024), TextCell(<<"Traspaso">>), Absent,
                    Absent, TextCell(T12500), NumCell(N1500))
          [] kind = "both" ->
                row(TextCell(D15032024), TextCell(<<"Pago">>), TextCell(<<"App">>),
                    NumCell(N15000), TextCell(T12500), TextCell(T500000))
          [] kind = "blank" ->
                row(TextCell(D05012024), TextCell(<<"Compra", " ", "Tienda">>),
                    TextCell(<<"App">>), NumCell(N15000), TextCell(<<>>), TextCell(T485000))
          [] kind = "neither" ->
                row(TextCell(D06012024), TextCell(<<" ", "Pago", " ", " ", "Luz", " ">>),
                    TextCell(<<"App">>), Absent, NumCell(<<"0">>), TextCell(T485000))
          [] kind = "refund" ->
                row(TextCell(D15032024), TextCell(<<"Traspaso", " ", "A:", "Ana">>),
                    Absent, NumCell(<<"-", "1", "5">>), TextCell(T12500), NumCell(N1500))
          [] kind = "spacer" -> MkRow(layout.n, {})
          [] kind = "footer" ->
                row(TextCell(<<"Total">>), Absent, Absent, Absent, Absent, Absent)
          [] kind = "baddate" ->
                row(TextCell(D31022024), TextCell(<<"Pago">>), Absent,
                    NumCell(N15000), Absent, TextCell(T485000))

HeadLabels == {"holder", "rut", "account", "currency", "balance", "totals"}

AllLabels == HeadLabels \cup {"movements", "header"}

RECURSIVE RowsOf(_, _)
RowsOf(layout, kinds) ==
    IF Len(kinds) = 0 THEN <<>>
    ELSE <<DataRow(layout, Head(kinds))>> \o RowsOf(layout, Tail(kinds))

RECURSIVE Keep(_, _)
\* the rows of the labelled whose label is not missing
Keep(labelled, missing) ==
    IF Len(labelled) = 0 THEN <<>>
    ELSE (IF Head(labelled).label \in missing THEN <<>> ELSE <<Head(labelled).row>>)
         \o Keep(Tail(labelled), missing)

\* the frame of a statement
Statement(layout, style, account, movements, header, kinds, missing) ==
    Keep(HeadRows(layout.n, style, account)
         \o <<[label |-> "movements", row |-> MovementsRow(layout.n, movements)],
              [label |-> "header", row |-> HeaderRow(layout, header)]>>,
         missing)
    \o RowsOf(layout, kinds)

MaxRows == 2

MaxMissing == 1

MaxClock == 1

RECURSIVE KindSeqs(_)
\* every sequence of at most n row kinds
KindSeqs(n) ==
    IF n = 0 THEN {<<>>}
    ELSE KindSeqs(n - 1) \cup {Append(ks, k) : ks \in KindSeqs(n - 1), k \in RowKinds}

Extensions == {".xlsx", ".xls", ".XLS", ".csv"}

XlsxFile(ext, df) == [bytes |-> ZipMagic \o <<"14">>, ext |-> ext, format |-> "xlsx", df |-> df]

XlsFile(ext, df) == [bytes |-> Ole2Magic \o <<"A1">>, ext |-> ext, format |-> "xls", df |-> df]

\* statements whose head varies: a label missing, the date row in each form
HeadFiles ==
    {XlsxFile(".xlsx",
              Statement(LayoutXlsx, "xlsx", AccountA, mv, "full", <<"debit", "footer">>, miss))
        : mv \in MovementsKinds,
          miss \in {m \in SUBSET AllLabels : Cardinality(m) <= MaxMissing}}
    \cup
    {XlsFile(".xls",
             Statement(LayoutXls, "xls", AccountA, mv, "full", <<"credit">>, miss))
        : mv \in MovementsKinds,
          miss \in {m \in SUBSET AllLabels : Cardinality(m) <= MaxMissing}}

\* statements whose transaction table varies: layout, header and rows
\* some longer tables
LongTables ==
    {<<"debit", "credit", "footer", "debit">>, <<"credit", "spacer", "debit", "footer">>,
     <<"spacer", "debit", "baddate", "credit">>, <<"both", "blank", "credit">>}

TableFiles ==
    {XlsxFile(".xlsx", Statement(layout, "xlsx", AccountA, "single", header, kinds, {}))
        : layout \in Layouts, header \in HeaderStyles,
          kinds \in KindSeqs(MaxRows) \cup LongTables}

NominalXlsx ==
    Statement(LayoutXlsx, "xlsx", AccountA, "single", "full", <<"debit", "credit">>, {})

NominalXls ==
    Statement(LayoutXls, "xls", AccountB, "split", "full", <<"credit", "debit">>, {})

\* leading bytes of files that are no spreadsheet of either kind
OtherBytes ==
    {<<>>, <<"P">>, <<"P", "K">>, <<"P", "K", "03">>, <<"P", "K", "05", "06", "00">>,
     <<"K", "P", "03", "04">>, <<"3C", "68", "74", "6D", "6C">>}

\* files whose name and content vary independently
SniffFiles ==
    {XlsxFile(ext, NominalXlsx) : ext \in Extensions}
    \cup {XlsFile(ext, NominalXls) : ext \in Extensions}
    \cup {[bytes |-> b, ext |-> ext, format |-> "other", df |-> <<>>]
            : b \in OtherBytes, ext \in Extensions}

-----------------------------------------------------------------------------
(* BancoChileXLSExtractor.extract *)

\* f.read(4)
Read4(bytes) == IF Len(bytes) <= 4 THEN bytes ELSE SubSeq(bytes, 1, 4)

\* signature[:2]
First2(signature) == IF Len(signature) <= 2 THEN signature ELSE SubSeq(signature, 1, 2)

\* faulty variant: the engine follows the file name
DetectByExtension(f) == IF f.ext = ".xlsx" THEN "openpyxl" ELSE "xlrd"

\* _detect_excel_engine(filepath)
DetectExcelEngine(f) ==
    IF First2(Read4(f.bytes)) = <<"P", "K">> THEN "openpyxl" ELSE "xlrd"

\* pd.read_excel(filepath, header=None, engine=engine) returns a frame: the
\* engine reads the container format the content has
ReadExcelOk(f, eng) ==
    \/ eng = "openpyxl" /\ f.format = "xlsx"
    \/ eng = "xlrd" /\ f.format = "xls"

NoError == [kind |-> "none", msg |-> ""]

Error(kind, msg) == [kind |-> kind, msg |-> msg]

NoCols == [key \in Roles |-> -1]

NoResult == [returned |-> FALSE, metadata |-> NoMeta, transactions |-> <<>>]

IdleAmount == cell = Absent /\ amount = NoAmount /\ apc = "idle"

NoReceipt == [date |-> NoDate, payee |-> <<>>, receipt_paths |-> <<>>]

\* generate_receipt_link is not running
IdleLink == receipt = NoReceipt /\ links = {} /\ lpc = "idle"

NoAnswer == [v |-> "pending", date |-> NoDate, name |-> <<>>]

\* extract is called directly, not by an importer method
NoImporter == op = "extract" /\ account_number = <<>> /\ answer = NoAnswer /\ entries = <<>>

FreshCall ==
    /\ pc = "call"
    /\ engine = "none"
    /\ metadata = NoMeta
    /\ cols = NoCols
    /\ idx = -1
    /\ transactions = <<>>
    /\ error = NoError
    /\ result = NoResult

Init ==
    /\ IdleAmount
    /\ IdleLink
    /\ \/ file \in HeadFiles /\ now \in 0..MaxClock
       \/ file \in TableFiles \cup SniffFiles /\ now = 0
    /\ FreshCall
    /\ calls = <<>>
    /\ NoImporter

\* the call ends with an exception: the caller receives nothing
RaiseFrom(kind, msg) ==
    /\ pc' = "raised"
    /\ error' = Error(kind, msg)
    /\ UNCHANGED result

\* lines 94-95: choose the engine, read the file
ReadExcel ==
    /\ pc = "call"
    /\ engine' = DetectExcelEngine(file)
    /\ IF ReadExcelOk(file, DetectExcelEngine(file))
       THEN pc' = "metadata" /\ UNCHANGED <<error, result>>
       ELSE RaiseFrom("LoadError", "read_excel")
    /\ UNCHANGED <<metadata, cols, idx, transactions>>
    /\ UNCHANGED <<file, now, calls, importerVars, amountVars, linkVars>>

\* line 98
ExtractMetadataCall ==
    /\ pc = "metadata"
    /\ LET out == ExtractMetadata(file.df, now)
       IN  IF out.err = "none"
           THEN pc' = "transactions" /\ metadata' = out.meta /\ UNCHANGED <<error, result>>
           ELSE RaiseFrom(out.err, out.msg) /\ UNCHANGED metadata
    /\ UNCHANGED <<engine, cols, idx, transactions>>
    /\ UNCHANGED <<file, now, calls, importerVars, amountVars, linkVars>>

\* header_row.empty
HeaderMissing(df) == FirstRow(df, LabelHeader) = -1

\* lines 271-286: find the header row, map the columns, start the loop
FindHeader ==
    /\ pc = "transactions"
    /\ IF HeaderMissing(file.df)
       THEN RaiseFrom("ValueError", "Could not find transaction header")
            /\ UNCHANGED <<cols, idx>>
       ELSE /\ pc' = "scan"
            /\ LET header_idx == FirstRow(file.df, LabelHeader)
               IN  /\ cols' = DetectTransactionColumns(file.df, header_idx)
                   /\ idx' = header_idx + 1
            /\ UNCHANGED <<error, result>>
    /\ UNCHANGED <<engine, metadata, transactions>>
    /\ UNCHANGED <<file, now, calls, importerVars, amountVars, linkVars>>

\* lines 330 and 103: return transactions; return metadata, transactions
ReturnResult ==
    /\ pc' = "returned"
    /\ result' = [returned |-> TRUE, metadata |-> metadata, transactions |-> transactions]
    /\ UNCHANGED error

\* lines 287-328: one pass of the loop, or its end
ScanRow ==
    /\ pc = "scan"
    /\ IF idx >= NRows(file.df)
       THEN ReturnResult /\ UNCHANGED <<idx, transactions>>
       ELSE LET step == RowStep(file.df, cols, idx)
            IN  CASE step = "continue" ->
                        /\ idx' = idx + 1
                        /\ UNCHANGED <<pc, transactions, error, result>>
                  [] step = "break" ->
                        ReturnResult /\ UNCHANGED <<idx, transactions>>
                  [] step = "append" ->
                        /\ transactions' =
                               Append(transactions, RowTransaction(file.df, cols, idx))
                        /\ idx' = idx + 1
                        /\ UNCHANGED <<pc, error, result>>
                  [] OTHER ->
                        RaiseFrom(step, "row") /\ UNCHANGED <<idx, transactions>>
    /\ UNCHANGED <<engine, metadata, cols>>
    /\ UNCHANGED <<file, now, calls, importerVars, amountVars, linkVars>>

Next == ReadExcel \/ ExtractMetadataCall \/ FindHeader \/ ScanRow

Spec == Init /\ [][Next]_vars

-----------------------------------------------------------------------------
(* Properties of extract *)

Done == pc \in {"returned", "raised"}

\* the loop of _extract_transactions was entered
Scanned == pc \in {"scan", "returned", "raised"} /\ idx >= 0

HeaderIdx == FirstRow(file.df, LabelHeader)

\* C1: no returned transaction has both its debit and its credit populated
C1_NotBothPopulated ==
    \A i \in DOMAIN result.transactions :
        ~(result.transactions[i].debit # NoAmount /\ result.transactions[i].credit # NoAmount)

RequiredLabels ==
    {LabelHolder, LabelRut, LabelAccount, LabelCurrency, LabelBalance, LabelTotals,
     LabelMovements, LabelHeader}

C2_LabelMissing ==
    \E label \in RequiredLabels :
        \A r \in 0..(NRows(file.df) - 1) : ~StartsWith(Strip(Str(ILoc(file.df, r, 1))), label)

\* C2: extract has no partial success: with a required label missing the call
\* ends in an error and the caller receives neither metadata nor transactions;
\* a (metadata, transactions) pair is returned only when every label is present
C2_AllOrNothing ==
    /\ (Done /\ engine # "none" /\ error.kind # "LoadError" /\ C2_LabelMissing)
            => (pc = "raised" /\ error # NoError)
    /\ pc = "raised" => result = NoResult
    /\ result.returned =>
            /\ pc = "returned"
            /\ ~C2_LabelMissing
            /\ result.metadata # NoMeta
            /\ result.metadata = metadata
            /\ result.transactions = transactions
    /\ pc = "returned" => result.returned

\* C2 witness: the header row is missing, all metadata was found, and the call
\* has failed with nothing returned
C2_Witness ==
    /\ pc = "raised"
    /\ metadata # NoMeta
    /\ HeaderMissing(file.df)
    /\ result = NoResult

\* row r is below the header, its date cell is not empty and its text does
\* not start with DD/MM/YYYY
C3_IsFooter(r) ==
    /\ r > HeaderIdx
    /\ r < NRows(file.df)
    /\ ~IsNa(ILoc(file.df, r, cols["date"]))
    /\ ~DateMatch(Str(ILoc(file.df, r, cols["date"])))

C3_FirstFooter == SetMin({r \in 0..(NRows(file.df) - 1) : C3_IsFooter(r)})

RECURSIVE C3_Collected(_, _)
\* the transactions of the rows from..to that give one, in source order
C3_Collected(from, to) ==
    IF from > to THEN <<>>
    ELSE C3_Collected(from, to - 1)
         \o (IF RowStep(file.df, cols, to) = "append"
             THEN <<RowTransaction(file.df, cols, to)>> ELSE <<>>)

\* C3: the loop stops at the first footer row: it never goes past it, stopping
\* there raises no error and returns the transactions collected before it in
\* source order, and no row at or after it contributes a transaction
C3_StopsAtFooter ==
    (Scanned /\ \E r \in 0..(NRows(file.df) - 1) : C3_IsFooter(r)) =>
        /\ idx <= C3_FirstFooter
        /\ transactions = C3_Collected(HeaderIdx + 1, idx - 1)
        /\ (idx = C3_FirstFooter /\ pc # "scan") =>
                /\ pc = "returned"
                /\ error = NoError
                /\ result.transactions = C3_Collected(HeaderIdx + 1, C3_FirstFooter - 1)

\* C3 witness: the scan has stopped at a footer row with two transactions
\* collected, and a row with a valid date follows the footer
C3_Witness ==
    /\ pc = "returned"
    /\ \E r \in 0..(NRows(file.df) - 1) : C3_IsFooter(r)
    /\ idx = C3_FirstFooter
    /\ Len(result.transactions) = 2
    /\ \E r \in (idx + 1)..(NRows(file.df) - 1) : RowStep(file.df, cols, r) = "append"

\* C4: no failure of a transaction row surfaces: once the loop is entered the
\* call does not end in an error
C4_RowFailureNeverSurfaces == Scanned => pc # "raised"

\* C7: each transaction column maps to the header cell matching its text, to
\* its legacy index when none matches; with a header lacking credit text
\* extract still returns, reading credit from column 5, without raising
C7_FallbackReturns ==
    Scanned =>
        /\ \A key \in Roles :
              \/ /\ cols[key] \in 0..(NCols(file.df) - 1)
                 /\ HeaderKey(Strip(Str(ILoc(file.df, HeaderIdx, cols[key])))) = key
              \/ /\ KeyColumns(file.df, HeaderIdx, key) = {}
                 /\ cols[key] = LegacyColumn(key)
        /\ (KeyColumns(file.df, HeaderIdx, "credit") = {}
              /\ \A key \in Roles \ {"credit"} : KeyColumns(file.df, HeaderIdx, key) # {})
            => /\ cols["credit"] = 5
               /\ pc # "raised"

\* the statement-date code of _extract_metadata was reached: the file was
\* read and every label looked for before the date is there
C8_Reached ==
    /\ pc \in {"transactions", "scan", "returned", "raised"}
    /\ error.kind # "LoadError"
    /\ \A label \in RequiredLabels \ {LabelHeader} : FirstRow(file.df, label) # -1

\* <<column, position>> of every match of DD/MM/YYYY in the first
\* "Movimientos" row
C8_Matches ==
    LET r == FirstRow(file.df, LabelMovements)
    IN  UNION {{<<c, i>> : i \in {j \in 1..Len(Str(ILoc(file.df, r, c))) :
                                       DatePatternAt(Str(ILoc(file.df, r, c)), j)}}
                 : c \in {k \in 0..(NCols(file.df) - 1) : ~IsNa(ILoc(file.df, r, k))}}

C8_Leftmost ==
    CHOOSE q \in C8_Matches :
        \A o \in C8_Matches : q[1] < o[1] \/ (q[1] = o[1] /\ q[2] <= o[2])

\* day, month and year of the leftmost match
C8_LeftmostFields ==
    LET s == Str(ILoc(file.df, FirstRow(file.df, LabelMovements), C8_Leftmost[1]))
        i == C8_Leftmost[2]
    IN  [d |-> DigitsVal(SubSeq(s, i, i + 1)),
         m |-> DigitsVal(SubSeq(s, i + 3, i + 4)),
         y |-> DigitsVal(SubSeq(s, i + 6, i + 9)),
         t |-> 0]

C8_Expected == IF C8_Matches = {} THEN ClockDatetime(now) ELSE C8_LeftmostFields

\* C8 as stated: with a "Movimientos" row the statement date never fails: it
\* is the leftmost match read as day/month/year, the current date without one
C8_DateNeverFails ==
    C8_Reached => (metadata # NoMeta /\ metadata.statement_date = C8_Expected)

C8_IsCalendarDate(f) ==
    f.y >= 1 /\ f.m \in 1..12 /\ f.d >= 1
    /\ f.d <= (IF f.m = 2 THEN (IF IsLeap(f.y) THEN 29 ELSE 28)
               ELSE IF f.m \in {4, 6, 9, 11} THEN 30 ELSE 31)

\* C8 amended: the statement date is the leftmost match when that is a calendar
\* date and the current date when no cell holds the pattern; a leftmost match
\* that is no calendar date makes extract fail with a ValueError
C8_DateOrValueError ==
    C8_Reached =>
        IF C8_Matches # {} /\ ~C8_IsCalendarDate(C8_LeftmostFields)
        THEN pc = "raised" /\ error.kind = "ValueError" /\ metadata = NoMeta
             /\ result = NoResult
        ELSE metadata # NoMeta /\ metadata.statement_date = C8_Expected

\* C8 witness: two cells of the row hold a date and the statement date is set
C8_Witness ==
    /\ C8_Reached
    /\ pc = "returned"
    /\ \E q \in C8_Matches : q[1] # C8_Leftmost[1]
    /\ result.metadata.statement_date = C8_LeftmostFields

\* C6 as stated: openpyxl is chosen exactly when the first 4 bytes are the ZIP
\* local-file-header magic, xlrd for every other content
C6_ZipMagicOnly ==
    engine # "none" =>
        /\ engine = "openpyxl" <=> Read4(file.bytes) = ZipMagic
        /\ engine = "xlrd" <=> Read4(file.bytes) # ZipMagic

\* C6 amended: openpyxl is chosen exactly when the content begins with the two
\* bytes "PK", xlrd for every other content, whatever the extension
C6_FirstTwoBytes ==
    engine # "none" =>
        LET pk == Len(file.bytes) >= 2 /\ file.bytes[1] = "P" /\ file.bytes[2] = "K"
        IN  /\ engine = "openpyxl" <=> pk
            /\ engine = "xlrd" <=> ~pk

\* C6 witness: a file named .xls that begins with "PK" but not with the ZIP
\* magic went to openpyxl
C6_Witness ==
    /\ engine = "openpyxl"
    /\ file.ext = ".xls"
    /\ Read4(file.bytes) # ZipMagic

-----------------------------------------------------------------------------
(* _parse_amount applied to one cell *)

MaxTextLen == 4

AmountAlphabet == {"0", "1", "5", ",", ".", " ", "e", "-", "x"}

RECURSIVE TextsUpTo(_, _)
\* every text of at most n characters of the alphabet
TextsUpTo(alphabet, n) ==
    IF n = 0 THEN {<<>>}
    ELSE LET shorter == TextsUpTo(alphabet, n - 1)
         IN  shorter \cup {Append(t, c) : t \in shorter, c \in alphabet}

AmountCells ==
    {Absent}
    \cup {NumCell(N1500), NumCell(N15000), NumCell(N05), NumCell(<<"-", "1", "5">>),
          NumCell(<<"1", "e", "+", "1", "6">>), NumCell(<<"inf">>)}
    \cup {TextCell(t) : t \in TextsUpTo(AmountAlphabet, MaxTextLen)}
    \cup {TextCell(T1234567), TextCell(T12500), TextCell(<<"NaN">>)}

\* no statement is being read
IdleExtract ==
    /\ file = [bytes |-> <<>>, ext |-> "", format |-> "other", df |-> <<>>]
    /\ now = 0
    /\ pc = "idle"
    /\ engine = "none"
    /\ metadata = NoMeta
    /\ cols = NoCols
    /\ idx = -1
    /\ transactions = <<>>
    /\ error = NoError
    /\ result = NoResult
    /\ calls = <<>>
    /\ NoImporter

InitAmount ==
    /\ cell \in AmountCells
    /\ amount = NoAmount
    /\ apc = "call"
    /\ IdleExtract
    /\ IdleLink

ParseAmountCall ==
    /\ apc = "call"
    /\ amount' = ParseAmount(cell)
    /\ apc' = IF ParseAmount(cell) = Invalid THEN "raised" ELSE "returned"
    /\ UNCHANGED cell
    /\ UNCHANGED <<file, now, callVars, calls, importerVars, linkVars>>

NextAmount == ParseAmountCall

SpecAmount == InitAmount /\ [][NextAmount]_vars

\* the text is an optionally signed run of digits
C9_PlainInteger(s) == Len(Unsigned(s)) > 0 /\ AllDigits(Unsigned(s))

\* the reference of the text of a cell: the integer its digits spell once
\* commas, periods and surrounding blanks are gone
C9_Reference(s) ==
    LET rest == Strip(RemoveSeparators(s))
    IN  IF C9_PlainInteger(rest) THEN Dec(SignOf(rest) * DigitsVal(Unsigned(rest)), 0)
        ELSE DecZero

\* C9: _parse_amount never raises; an absent cell gives 0, a numeric cell its
\* own value (1500.0 gives 1500), a text cell the integer read from its text
\* without commas and periods ("1.234.567" gives 1234567, "12,500" gives
\* 12500) and 0 when what remains is empty or no number; the value of a text
\* cell never has a fractional part
C9_AgreesWithReference ==
    apc # "call" =>
        /\ apc = "returned"
        /\ IsNa(cell) => DecEq(amount, DecZero)
        /\ cell = NumCell(N1500) => DecEq(amount, Dec(1500, 0))
        /\ cell.t = "num" /\ AllDigits(Unsigned(cell.s)) =>
               DecEq(amount, Dec(SignOf(cell.s) * DigitsVal(Unsigned(cell.s)), 0))
        /\ cell.t = "text" =>
               /\ IsIntegral(amount)
               /\ C9_PlainInteger(Strip(RemoveSeparators(cell.s))) =>
                      DecEq(amount, C9_Reference(cell.s))
               /\ Len(Strip(RemoveSeparators(cell.s))) = 0 => DecEq(amount, DecZero)
               /\ DecimalOf(Strip(RemoveSeparators(cell.s))) = Invalid =>
                      DecEq(amount, DecZero)

-----------------------------------------------------------------------------
(* extract called again on the same file, the clock running *)

MaxCalls == 2

\* the outcome of a finished call, as its caller sees it
Outcome == [err |-> error.kind, result |-> result]

InitTwice ==
    /\ IdleAmount
    /\ IdleLink
    /\ file \in HeadFiles \cup {XlsxFile(".xlsx", NominalXlsx), XlsFile(".xls", NominalXls)}
    /\ now = 0
    /\ FreshCall
    /\ calls = <<>>
    /\ NoImporter

\* datetime.now() moves on; the file is not touched
Tick ==
    /\ now < MaxClock
    /\ now' = now + 1
    /\ UNCHANGED <<file, callVars, calls, importerVars, amountVars, linkVars>>

\* the caller keeps what the call gave and calls extract again: the extractor
\* holds no state, every local starts afresh
CallAgain ==
    /\ pc \in {"returned", "raised"}
    /\ Len(calls) + 1 < MaxCalls
    /\ calls' = Append(calls, Outcome)
    /\ pc' = "call"
    /\ engine' = "none"
    /\ metadata' = NoMeta
    /\ cols' = NoCols
    /\ idx' = -1
    /\ transactions' = <<>>
    /\ error' = NoError
    /\ result' = NoResult
    /\ UNCHANGED <<file, now, importerVars, amountVars, linkVars>>

NextTwice == ReadExcel \/ ExtractMetadataCall \/ FindHeader \/ ScanRow \/ Tick \/ CallAgain

SpecTwice == InitTwice /\ [][NextTwice]_vars

\* the "Movimientos" row of the file carries the date pattern
C5_HasPattern ==
    DateColumns(file.df, FirstRow(file.df, LabelMovements)) # {}

\* the metadata without its statement date
C5_Rest(m) == [m EXCEPT !.statement_date = NoDate]

\* C5 as stated: two calls of extract on the same unchanged file, at any time,
\* yield identical (metadata, transactions) whenever extract succeeds, files
\* whose "Movimientos" row has no date pattern included
C5_Deterministic ==
    pc = "returned" =>
        \A i \in 1..Len(calls) : calls[i].result.returned => calls[i].result = result

\* C5 amended: two calls on the same unchanged file end the same way (both
\* return or both raise the same error), with identical transactions and
\* identical metadata apart from statement_date; statement_date is identical
\* too when the "Movimientos" row carries the date pattern, and is the clock's
\* datetime of each call when it does not
C5_SameUpToClockDate ==
    pc \in {"returned", "raised"} =>
        \A i \in 1..Len(calls) :
            /\ calls[i].err = error.kind
            /\ calls[i].result.returned = result.returned
            /\ calls[i].result.transactions = result.transactions
            /\ C5_Rest(calls[i].result.metadata) = C5_Rest(result.metadata)
            /\ result.returned /\ C5_HasPattern =>
                   calls[i].result.metadata.statement_date = result.metadata.statement_date
            /\ result.returned /\ ~C5_HasPattern =>
                   /\ result.metadata.statement_date \in {ClockDatetime(n) : n \in 0..now}
                   /\ calls[i].result.metadata.statement_date
                          \in {ClockDatetime(n) : n \in 0..now}

\* C5 witness: both calls returned, on a file without the date pattern, the
\* clock having moved between them, and the two statement dates differ
C5_Witness ==
    /\ pc = "returned"
    /\ Len(calls) >= 1
    /\ calls[1].result.returned
    /\ ~C5_HasPattern
    /\ calls[1].result.transactions = result.transactions
    /\ calls[1].result.metadata.statement_date # result.metadata.statement_date

-----------------------------------------------------------------------------
(* BancoChileImporter: identify, date, filename *)

\* str.lower() of the suffixes the files carry
Lower(ext) == IF ext = ".XLS" THEN ".xls" ELSE ext

\* filepath.suffix.lower() not in [".xls", ".xlsx"]
SuffixRejected(f) == Lower(f.ext) \notin {".xls", ".xlsx"}

\* faulty variant: the handlers catch ValueError alone
CatchesValueErrorOnly(kind) == kind = "ValueError"

\* except Exception: every error the extractor raises is an Exception
Catches(kind) == kind \in {"LoadError", "KeyError", "ValueError", "IndexError",
                           "InvalidOperation"}

NotDash(c) == c # "-"

\* account_number.replace("-", "")
RemoveDashes(s) == SelectSeq(s, NotDash)

RECURSIVE ZeroPad(_, _)
\* the decimal digits of n, zero-padded to width w
ZeroPad(n, w) ==
    IF w = 0 THEN <<>>
    ELSE ZeroPad(n \div 10, w - 1)
             \o <<CHOOSE c \in DigitChars : DigitVal(c) = n % 10>>

\* statement_date.strftime("%Y-%m-%d")
Strftime(dt) == ZeroPad(dt.y, 4) \o <<"-">> \o ZeroPad(dt.m, 2) \o <<"-">> \o ZeroPad(dt.d, 2)

\* f"{date_str}_banco_chile_{self.account_number.replace('-', '')}.xls"
SuggestedName(dt, account) ==
    Strftime(dt) \o <<"_banco_chile_">> \o RemoveDashes(account) \o <<".xls">>

Answer(v, dt, name) == [v |-> v, date |-> dt, name |-> name]

\* statements of every layout and header, each with one dated row
ImporterTables ==
    {XlsxFile(".xlsx",
              Statement(layout, "xlsx", AccountA, "single", header, <<"debit", "footer">>, {}))
        : layout \in Layouts, header \in HeaderStyles}

InitImporter ==
    /\ IdleAmount
    /\ IdleLink
    /\ file \in HeadFiles \cup SniffFiles \cup ImporterTables
    /\ now = 0
    /\ pc = "importer"
    /\ engine = "none"
    /\ metadata = NoMeta
    /\ cols = NoCols
    /\ idx = -1
    /\ transactions = <<>>
    /\ error = NoError
    /\ result = NoResult
    /\ calls = <<>>
    /\ op \in {"identify", "date", "filename"}
    /\ account_number \in {AccountA, AccountB}
    /\ answer = NoAnswer
    /\ entries = <<>>

\* identify, lines 55-60: the suffix check, then the call of extract
IdentifyBegin ==
    /\ pc = "importer"
    /\ op = "identify"
    /\ IF SuffixRejected(file)
       THEN pc' = "answered" /\ answer' = Answer("False", NoDate, <<>>)
       ELSE pc' = "call" /\ UNCHANGED answer
    /\ UNCHANGED <<engine, metadata, cols, idx, transactions, error, result>>
    /\ UNCHANGED <<file, now, calls, op, account_number, entries, amountVars, linkVars>>

\* date, line 91, and filename, line 107: the call of extract
ExtractBegin ==
    /\ pc = "importer"
    /\ op \in {"date", "filename"}
    /\ pc' = "call"
    /\ UNCHANGED <<engine, metadata, cols, idx, transactions, error, result>>
    /\ UNCHANGED <<file, now, calls, importerVars, amountVars, linkVars>>

\* the exception of extract reaches the handler, or leaves the method
Handle(caught, fallback) ==
    IF caught
    THEN pc' = "answered" /\ answer' = Answer(fallback, NoDate, <<>>)
    ELSE pc' = "propagated" /\ UNCHANGED answer

\* identify, lines 60-66
IdentifyEnd ==
    /\ op = "identify"
    /\ pc \in {"returned", "raised"}
    /\ IF pc = "returned"
       THEN /\ pc' = "answered"
            /\ answer' = Answer(IF result.metadata.account_number = account_number
                                THEN "True" ELSE "False", NoDate, <<>>)
       ELSE Handle(Catches(error.kind), "False")
    /\ UNCHANGED <<engine, metadata, cols, idx, transactions, error, result>>
    /\ UNCHANGED <<file, now, calls, op, account_number, entries, amountVars, linkVars>>

\* date, lines 90-94
DateEnd ==
    /\ op = "date"
    /\ pc \in {"returned", "raised"}
    /\ IF pc = "returned"
       THEN /\ pc' = "answered"
            /\ answer' = Answer("datetime", result.metadata.statement_date, <<>>)
       ELSE Handle(Catches(error.kind), "None")
    /\ UNCHANGED <<engine, metadata, cols, idx, transactions, error, result>>
    /\ UNCHANGED <<file, now, calls, op, account_number, entries, amountVars, linkVars>>

\* filename, lines 106-111
FilenameEnd ==
    /\ op = "filename"
    /\ pc \in {"returned", "raised"}
    /\ IF pc = "returned"
       THEN /\ pc' = "answered"
            /\ answer' = Answer("str", NoDate,
                                SuggestedName(result.metadata.statement_date, account_number))
       ELSE Handle(Catches(error.kind), "None")
    /\ UNCHANGED <<engine, metadata, cols, idx, transactions, error, result>>
    /\ UNCHANGED <<file, now, calls, op, account_number, entries, amountVars, linkVars>>

NextImporter ==
    \/ IdentifyBegin \/ ExtractBegin
    \/ ReadExcel \/ ExtractMetadataCall \/ FindHeader \/ ScanRow
    \/ IdentifyEnd \/ DateEnd \/ FilenameEnd

SpecImporter == InitImporter /\ [][NextImporter]_vars

\* C10: identify, date and filename never let an error of extract through:
\* whenever the extractor raised, whatever the error, identify answers False
\* and date and filename answer None; identify answers True only for a file
\* whose suffix is .xls or .xlsx (in any letter case), on which extract
\* returned, and whose account number is the configured one
C10_FailureNeverPropagates ==
    /\ pc # "propagated"
    /\ pc = "answered" /\ error.kind # "none" =>
           /\ op = "identify" => answer = Answer("False", NoDate, <<>>)
           /\ op \in {"date", "filename"} => answer = Answer("None", NoDate, <<>>)
    /\ pc = "answered" /\ answer.v = "True" =>
           /\ op = "identify"
           /\ Lower(file.ext) \in {".xls", ".xlsx"}
           /\ result.returned
           /\ error.kind = "none"
           /\ result.metadata.account_number = account_number

\* C10 witness: extract raised a KeyError from the row loop, an error that is
\* no ValueError, and filename answered None
C10_Witness ==
    /\ pc = "answered"
    /\ op = "filename"
    /\ error = Error("KeyError", "row")
    /\ answer = Answer("None", NoDate, <<>>)

-----------------------------------------------------------------------------
(* The fields of the transaction of a row *)

RECURSIVE C14_Rows(_, _)
\* the indices of the rows from..to that gave a transaction, in source order
C14_Rows(from, to) ==
    IF from > to THEN <<>>
    ELSE C14_Rows(from, to - 1)
         \o (IF RowStep(file.df, cols, to) = "append" THEN <<to>> ELSE <<>>)

\* the cell is empty: no value, or the empty text ""
C14_EmptyCell(c) == IsNa(c) \/ (c.t = "text" /\ c.s = <<>>)

\* the amount field agrees with its cell: absent exactly when the cell is
\* empty, the parsed amount of the cell otherwise
C14_FieldOf(field, c) ==
    /\ field = NoAmount <=> C14_EmptyCell(c)
    /\ ~C14_EmptyCell(c) => field = ParseAmount(c)

-----------------------------------------------------------------------------
(* Rows with an empty date cell *)

\* row r lies below the header and its date cell is empty
C13_IsSpacer(r) ==
    /\ r > HeaderIdx
    /\ r < NRows(file.df)
    /\ IsNa(ILoc(file.df, r, cols["date"]))

\* row r carries a valid date: DD/MM/YYYY naming a calendar day
C13_ValidDate(r) ==
    /\ ~IsNa(ILoc(file.df, r, cols["date"]))
    /\ StrpOk(Str(ILoc(file.df, r, cols["date"])))

\* the first row below the header whose date cell is neither empty nor a valid
\* date; the number of rows when there is none
C13_FirstNonDate ==
    LET stops == {r \in (HeaderIdx + 1)..(NRows(file.df) - 1) :
                     ~C13_IsSpacer(r) /\ ~C13_ValidDate(r)}
    IN  IF stops = {} THEN NRows(file.df) ELSE SetMin(stops)

RECURSIVE C13_Deleted(_)
\* the first n rows of the grid with the empty-date rows deleted
C13_Deleted(n) ==
    IF n = 0 THEN <<>>
    ELSE C13_Deleted(n - 1) \o (IF C13_IsSpacer(n - 1) THEN <<>> ELSE <<file.df[n]>>)

RECURSIVE C13_Loop(_, _, _)
\* the loop of _extract_transactions run on grid df from row r on, acc being
\* the transactions so far: the error it ends with and the list it returns
C13_Loop(df, r, acc) ==
    IF r >= NRows(df) THEN [err |-> "none", transactions |-> acc]
    ELSE LET step == RowStep(df, cols, r)
         IN  CASE step = "continue" -> C13_Loop(df, r + 1, acc)
               [] step = "break" -> [err |-> "none", transactions |-> acc]
               [] step = "append" ->
                      C13_Loop(df, r + 1, Append(acc, RowTransaction(df, cols, r)))
               [] OTHER -> [err |-> step, transactions |-> <<>>]

-----------------------------------------------------------------------------
(* BancoChileImporter.extract: the ledger entries of a statement *)

RECURSIVE Digits(_)
\* the decimal digits of n >= 0
Digits(n) ==
    IF n < 10 THEN <<CHOOSE c \in DigitChars : DigitVal(c) = n>>
    ELSE Digits(n \div 10) \o <<CHOOSE c \in DigitChars : DigitVal(c) = n % 10>>

Zeros(k) == [i \in 1..k |-> "0"]

Abs(n) == IF n < 0 THEN -n ELSE n

\* str(d) of a finite Decimal: plain notation when the exponent is not positive
\* and more than -6 digits lie left of the point, scientific otherwise
DecStrNum(d) ==
    LET digits == Digits(Abs(d.c))
        leftdigits == d.e + Len(digits)
        dotplace == IF d.e <= 0 /\ leftdigits > -6 THEN leftdigits ELSE 1
        intpart == IF dotplace <= 0 THEN <<"0">>
                   ELSE IF dotplace >= Len(digits)
                        THEN digits \o Zeros(dotplace - Len(digits))
                   ELSE SubSeq(digits, 1, dotplace)
        fracpart == IF dotplace <= 0 THEN <<".">> \o Zeros(-dotplace) \o digits
                    ELSE IF dotplace >= Len(digits) THEN <<>>
                    ELSE <<".">> \o SubSeq(digits, dotplace + 1, Len(digits))
        exp == IF leftdigits = dotplace THEN <<>>
               ELSE <<"E", IF leftdigits - dotplace < 0 THEN "-" ELSE "+">>
                        \o Digits(Abs(leftdigits - dotplace))
    IN  (IF d.c < 0 THEN <<"-">> ELSE <<>>) \o intpart \o fracpart \o exp

\* str(d) of a Decimal
DecStr(d) ==
    CASE d.kind = "num" -> DecStrNum(d)
      [] d.kind = "inf" -> (IF d.c < 0 THEN <<"-">> ELSE <<>>) \o <<"Infinity">>
      [] OTHER -> <<"NaN">>

NotCommaOrBlank(c) == c \notin {",", " "}

\* beancount's D(text): Decimal of the text without commas and blanks, zero
\* for the empty text
D(text) ==
    IF Len(text) = 0 THEN DecZero ELSE DecimalOf(SelectSeq(text, NotCommaOrBlank))

\* -d
Neg(d) == [d EXCEPT !.c = -d.c]

\* "x and x > 0" raises: the ordering of a NaN is an InvalidOperation
PositiveRaises(x) == x.kind = "nan"

\* "x and x > 0" for an optional Decimal x: None and zero are falsy
Positive(x) == x.kind \in {"num", "inf"} /\ x.c > 0

RECURSIVE RemoveAll(_, _)
\* s.replace(pat, "")
RemoveAll(s, pat) ==
    IF Len(s) = 0 THEN <<>>
    ELSE IF StartsWith(s, pat) THEN RemoveAll(SubSeq(s, Len(pat) + 1, Len(s)), pat)
    ELSE <<Head(s)>> \o RemoveAll(Tail(s), pat)

PayeePrefixes ==
    <<(<<"Traspaso", " ", "A:">>), (<<"Transferencia", " ", "A:">>),
      (<<"Compra", " ">>), (<<"Pago", " ">>)>>

\* helpers.normalize_payee
NormalizePayee(description) ==
    LET d == Strip(description)
        hits == {i \in 1..Len(PayeePrefixes) : StartsWith(d, PayeePrefixes[i])}
    IN  IF hits = {} THEN d ELSE Strip(RemoveAll(d, PayeePrefixes[SetMin(hits)]))

RECURSIVE SingleSpaced(_)
\* runs of blanks become one blank
SingleSpaced(s) ==
    IF Len(s) < 2 THEN s
    ELSE IF IsSpace(s[1]) /\ IsSpace(s[2]) THEN SingleSpaced(Tail(s))
    ELSE <<Head(s)>> \o SingleSpaced(Tail(s))

\* helpers.clean_narration: " ".join(description.split())
CleanNarration(description) == SingleSpaced(Strip(description))

\* datetime.date()
DateOf(dt) == [y |-> dt.y, m |-> dt.m, d |-> dt.d]

\* faulty variant: the debit is posted without its sign turned
TxnAmountUnsigned(t) ==
    IF Positive(t.debit) THEN D(DecStr(t.debit)) ELSE D(DecStr(t.credit))

\* lines 163-168: txn_amount, for a transaction that has one
TxnAmount(t) ==
    IF Positive(t.debit) THEN Neg(D(DecStr(t.debit))) ELSE D(DecStr(t.credit))

\* lines 169-171: no amount, the transaction is skipped
NoTxnAmount(t) == ~Positive(t.debit) /\ ~Positive(t.credit)

\* the comparisons of lines 163 and 166 raise
TxnAmountRaises(t) ==
    \/ PositiveRaises(t.debit)
    \/ ~Positive(t.debit) /\ PositiveRaises(t.credit)

\* _create_transaction_entry(transaction, filepath), for a transaction with an
\* amount: the data.Transaction with its one posting
CreateTransactionEntry(t) ==
    [type |-> "txn",
     date |-> DateOf(t.date),
     payee |-> NormalizePayee(t.description),
     narration |-> CleanNarration(t.description),
     channel |-> t.channel,
     amount |-> TxnAmount(t)]

\* lines 129-139: the data.Balance of the last transaction of the list
BalanceEntry(txns) ==
    [type |-> "balance",
     date |-> DateOf(txns[Len(txns)].date),
     amount |-> D(DecStr(txns[Len(txns)].balance))]

RECURSIVE ReversedEntries(_)
\* lines 142-145: the entries of the transactions, last transaction first
ReversedEntries(txns) ==
    IF Len(txns) = 0 THEN <<>>
    ELSE (IF NoTxnAmount(txns[Len(txns)]) THEN <<>>
          ELSE <<CreateTransactionEntry(txns[Len(txns)])>>)
         \o ReversedEntries(SubSeq(txns, 1, Len(txns) - 1))

\* lines 126-147: the list extract returns
LedgerEntries(txns) ==
    (IF Len(txns) = 0 THEN <<>> ELSE <<BalanceEntry(txns)>>) \o ReversedEntries(txns)

LedgerKinds == {"debit", "credit", "both", "blank", "neither", "refund", "spacer", "footer"}

RECURSIVE LedgerSeqs(_)
\* every sequence of at most n of these row kinds
LedgerSeqs(n) ==
    IF n = 0 THEN {<<>>}
    ELSE LedgerSeqs(n - 1) \cup {Append(ks, k) : ks \in LedgerSeqs(n - 1), k \in LedgerKinds}

LedgerFiles ==
    {XlsxFile(".xlsx", Statement(layout, "xlsx", AccountA, "single", "full", kinds, {}))
        : layout \in {LayoutXlsx, LayoutXls},
          kinds \in LedgerSeqs(MaxRows) \cup {<<"refund", "neither", "debit", "credit">>}}
    \cup ImporterTables

InitLedger ==
    /\ IdleAmount
    /\ IdleLink
    /\ file \in LedgerFiles
    /\ now = 0
    /\ pc = "importer"
    /\ engine = "none"
    /\ metadata = NoMeta
    /\ cols = NoCols
    /\ idx = -1
    /\ transactions = <<>>
    /\ error = NoError
    /\ result = NoResult
    /\ calls = <<>>
    /\ op = "ledger"
    /\ account_number = AccountA
    /\ answer = NoAnswer
    /\ entries = <<>>

\* line 124: the call of the extractor
LedgerBegin ==
    /\ pc = "importer"
    /\ op = "ledger"
    /\ pc' = "call"
    /\ UNCHANGED <<engine, metadata, cols, idx, transactions, error, result>>
    /\ UNCHANGED <<file, now, calls, importerVars, amountVars, linkVars>>

\* lines 124-147: an error of the extractor leaves the method, as does one of
\* _create_transaction_entry; otherwise the entries are returned
LedgerEnd ==
    /\ op = "ledger"
    /\ pc \in {"returned", "raised"}
    /\ IF pc = "raised"
       THEN pc' = "propagated" /\ UNCHANGED <<error, entries>>
       ELSE IF \E i \in 1..Len(result.transactions) : TxnAmountRaises(result.transactions[i])
       THEN /\ pc' = "propagated"
            /\ error' = Error("InvalidOperation", "_create_transaction_entry")
            /\ UNCHANGED entries
       ELSE /\ pc' = "answered"
            /\ entries' = LedgerEntries(result.transactions)
            /\ UNCHANGED error
    /\ UNCHANGED <<engine, metadata, cols, idx, transactions, result>>
    /\ UNCHANGED <<file, now, calls, op, account_number, answer, amountVars, linkVars>>

NextLedger ==
    LedgerBegin \/ ReadExcel \/ ExtractMetadataCall \/ FindHeader \/ ScanRow \/ LedgerEnd

SpecLedger == InitLedger /\ [][NextLedger]_vars

C11_IsPosting(e) == e.type = "txn"

C11_IsBalance(e) == e.type = "balance"

\* the parsed transactions that have a positive debit or a positive credit
C11_WithAmount ==
    {i \in 1..Len(result.transactions) :
        Positive(result.transactions[i].debit) \/ Positive(result.transactions[i].credit)}

\* the place among the transaction entries of the entry of transaction i
C11_EntryOf(i) == Cardinality({j \in C11_WithAmount : j >= i})

\* C11: the ledger entries sign the postings by direction: each parsed
\* transaction with a positive debit has exactly one entry, posting the negated
\* debit; otherwise one with a positive credit has exactly one entry, posting
\* the credit; one with neither has no entry; and a non-empty transaction list
\* gives exactly one balance assertion, of the balance of the last transaction
\* in extraction order
C11_SignedPostings ==
    (op = "ledger" /\ pc = "answered") =>
        LET txns == result.transactions
            postings == SelectSeq(entries, C11_IsPosting)
            balances == SelectSeq(entries, C11_IsBalance)
        IN  /\ Len(postings) = Cardinality(C11_WithAmount)
            /\ Len(postings) + Len(balances) = Len(entries)
            /\ \A i \in C11_WithAmount :
                   LET e == postings[C11_EntryOf(i)]
                   IN  /\ e.date = DateOf(txns[i].date)
                       /\ Positive(txns[i].debit) =>
                              /\ DecEq(e.amount, Neg(txns[i].debit))
                              /\ e.amount.c < 0
                       /\ ~Positive(txns[i].debit) =>
                              /\ DecEq(e.amount, txns[i].credit)
                              /\ e.amount.c > 0
            /\ Len(txns) > 0 =>
                   /\ Len(balances) = 1
                   /\ DecEq(balances[1].amount, txns[Len(txns)].balance)
            /\ Len(txns) = 0 => entries = <<>>

\* C11 witness: the entries of four transactions: one with neither amount and
\* no entry, a debit posted negative, credits posted positive, one of them
\* beside a negative debit, and the balance assertion
C11_Witness ==
    /\ op = "ledger"
    /\ pc = "answered"
    /\ Len(result.transactions) = 4
    /\ Len(entries) = 4
    /\ \E i \in 1..4 : ~Positive(result.transactions[i].debit)
                       /\ ~Positive(result.transactions[i].credit)
    /\ \E i \in 1..4 : result.transactions[i].debit.c < 0
    /\ \E k \in 1..4 : entries[k].type = "txn" /\ entries[k].amount.c < 0
    /\ \E k \in 1..4 : entries[k].type = "txn" /\ entries[k].amount.c > 0
    /\ entries[1].type = "balance"

-----------------------------------------------------------------------------
(* helpers.generate_receipt_link *)

\* Unicode code points of the characters the paths, payees and dates are made
\* of; "n~" is U+00F1 and "e'" is U+00E9, the precomposed letters, "~" is
\* U+0303 and "'" is U+0301, the combining marks
Code(c) ==
    CASE c = "," -> 44 [] c = "-" -> 45 [] c = "." -> 46 [] c = "/" -> 47
      [] c \in DigitChars -> 48 + DigitVal(c)
      [] c = ":" -> 58 [] c = "P" -> 80 [] c = "X" -> 88
      [] c = "a" -> 97 [] c = "b" -> 98 [] c = "e" -> 101 [] c = "n" -> 110
      [] c = "o" -> 111 [] c = "e'" -> 233 [] c = "n~" -> 241
      [] c = "'" -> 769 [] c = "~" -> 771

\* the precomposed letter of a base letter and a combining mark, "" for none
Composed(base, mark) ==
    CASE base = "n" /\ mark = "~" -> "n~"
      [] base = "e" /\ mark = "'" -> "e'"
      [] OTHER -> ""

RECURSIVE NFC(_)
\* unicodedata.normalize("NFC", p): every base letter followed by its mark
\* becomes the precomposed letter
NFC(p) ==
    IF Len(p) < 2 THEN p
    ELSE IF Composed(p[1], p[2]) # "" THEN <<Composed(p[1], p[2])>> \o NFC(Tail(Tail(p)))
    ELSE <<Head(p)>> \o NFC(Tail(p))

RECURSIVE NFD(_)
\* unicodedata.normalize("NFD", p): every precomposed letter becomes its base
\* letter and its mark
NFD(p) ==
    IF Len(p) = 0 THEN <<>>
    ELSE (CASE Head(p) = "n~" -> <<"n", "~">>
            [] Head(p) = "e'" -> <<"e", "'">>
            [] OTHER -> <<Head(p)>>)
         \o NFD(Tail(p))

RECURSIVE StrLess(_, _)
\* a < b for str: by code point, a proper prefix first
StrLess(a, b) ==
    IF Len(b) = 0 THEN FALSE
    ELSE IF Len(a) = 0 THEN TRUE
    ELSE IF Code(a[1]) # Code(b[1]) THEN Code(a[1]) < Code(b[1])
    ELSE StrLess(Tail(a), Tail(b))

RECURSIVE Insert(_, _)
Insert(x, sorted) ==
    IF Len(sorted) = 0 THEN <<x>>
    ELSE IF StrLess(Head(sorted), x) THEN <<Head(sorted)>> \o Insert(x, Tail(sorted))
    ELSE <<x>> \o sorted

RECURSIVE Sorted(_)
\* sorted(paths)
Sorted(paths) == IF Len(paths) = 0 THEN <<>> ELSE Insert(Head(paths), Sorted(Tail(paths)))

RECURSIVE Join(_)
\* ",".join(paths)
Join(paths) ==
    IF Len(paths) = 0 THEN <<>>
    ELSE IF Len(paths) = 1 THEN paths[1]
    ELSE paths[1] \o <<",">> \o Join(Tail(paths))

\* date.isoformat()
IsoFormat(d) == ZeroPad(d.y, 4) \o <<"-">> \o ZeroPad(d.m, 2) \o <<"-">> \o ZeroPad(d.d, 2)

RECURSIVE Digest(_, _)
\* a digest of a text: a function of its characters in their order, of bounded
\* width
Digest(text, mult) ==
    IF Len(text) = 0 THEN 7
    ELSE (Digest(SubSeq(text, 1, Len(text) - 1), mult) * mult + Code(text[Len(text)])) % 65536

HexChars == <<"0", "1", "2", "3", "4", "5", "6", "7", "8", "9", "a", "b", "c", "d", "e", "f">>

RECURSIVE HexPad(_, _)
\* n in hexadecimal, zero-padded to width w
HexPad(n, w) == IF w = 0 THEN <<>> ELSE HexPad(n \div 16, w - 1) \o <<HexChars[(n % 16) + 1]>>

\* hashlib.sha256(hash_input.encode()).hexdigest()[:8]: eight hexadecimal
\* characters that depend on the whole input
LinkHash(hash_input) == HexPad(Digest(hash_input, 31), 4) \o HexPad(Digest(hash_input, 37), 4)

\* faulty variant: the paths are sorted and joined as they come
NormalizedPathsAsGiven(receipt_paths) == receipt_paths

\* line 61: [unicodedata.normalize("NFC", p) for p in receipt_paths]
NormalizedPaths(receipt_paths) == [i \in 1..Len(receipt_paths) |-> NFC(receipt_paths[i])]

\* lines 60-63: f"{date_str}:{payee}:{paths_str}"
HashInput(date, payee, receipt_paths) ==
    IsoFormat(date) \o <<":">> \o payee \o <<":">>
        \o Join(Sorted(NormalizedPaths(receipt_paths)))

\* generate_receipt_link(date, payee, receipt_paths)
GenerateReceiptLink(date, payee, receipt_paths) ==
    IF Len(receipt_paths) = 0 THEN {}
    ELSE {<<"rcpt-">> \o LinkHash(HashInput(date, payee, receipt_paths))}

MaxPaths == 2

\* paths with and without letters that have two encodings, in either encoding
ReceiptPaths ==
    {<<"/", "a">>, <<"/", "b">>, <<"/", "o">>, <<"/", "n~">>, <<"/", "n", "~">>,
     <<"/", "e'", "/", "n", "~">>}

RECURSIVE PathLists(_)
\* every list of at most n of the paths
PathLists(n) ==
    IF n = 0 THEN {<<>>}
    ELSE PathLists(n - 1) \cup {Append(l, q) : l \in PathLists(n - 1), q \in ReceiptPaths}

ReceiptDates == {[y |-> 2024, m |-> 1, d |-> 15], [y |-> 2024, m |-> 6, d |-> 1]}

ReceiptPayees == {<<"X">>, <<"P", "e", "n", "a">>}

InitLink ==
    /\ IdleAmount
    /\ IdleExtract
    /\ receipt \in [date : ReceiptDates, payee : ReceiptPayees,
                    receipt_paths : PathLists(MaxPaths)]
    /\ links = {}
    /\ lpc = "call"

GenerateReceiptLinkCall ==
    /\ lpc = "call"
    /\ links' = GenerateReceiptLink(receipt.date, receipt.payee, receipt.receipt_paths)
    /\ lpc' = "returned"
    /\ UNCHANGED receipt
    /\ UNCHANGED <<file, now, callVars, calls, importerVars, amountVars>>

NextLink == GenerateReceiptLinkCall

SpecLink == InitLink /\ [][NextLink]_vars

\* list b holds the paths of list a in another order
C12_Permutation(a, b) ==
    /\ Len(a) = Len(b)
    /\ \A q \in ReceiptPaths :
           Cardinality({i \in 1..Len(a) : a[i] = q}) = Cardinality({i \in 1..Len(b) : b[i] = q})

\* list b holds the paths of list a, each in the NFC or in the NFD encoding
C12_Reencoded(a, b) ==
    /\ Len(a) = Len(b)
    /\ \A i \in 1..Len(a) : b[i] \in {NFC(a[i]), NFD(a[i])}

\* C12: for a fixed date and payee the link set of a path list is that of
\* every permutation of the list and of every list that differs from it only
\* in the NFC or NFD encoding of its paths; the empty list gives the empty set
\* and a non-empty list exactly one link
C12_OrderAndEncodingInvariant ==
    lpc = "returned" =>
        /\ \A other \in PathLists(MaxPaths) :
               (C12_Permutation(receipt.receipt_paths, other)
                    \/ C12_Reencoded(receipt.receipt_paths, other))
               => GenerateReceiptLink(receipt.date, receipt.payee, other) = links
        /\ receipt.receipt_paths = <<>> => links = {}
        /\ receipt.receipt_paths # <<>> => Cardinality(links) = 1

\* C12 witness: a call returned the link of two paths whose order flips when
\* they are re-encoded: "/o" sorts before the NFC "/n~" and after the NFD one
C12_Witness ==
    /\ lpc = "returned"
    /\ receipt.receipt_paths = <<(<<"/", "o">>), (<<"/", "n", "~">>)>>
    /\ Cardinality(links) = 1
    /\ Sorted(receipt.receipt_paths) # Sorted(NormalizedPaths(receipt.receipt_paths))
    /\ GenerateReceiptLink(receipt.date, receipt.payee,
                           <<(<<"/", "n~">>), (<<"/", "o">>)>>) = links

=============================================================================
